---- MODULE Spec2Model ----
(***************************************************************************)
(* State-machine model of the nginx-operator reconciliation core           *)
(* (pkg/stub/handler.go): Handle, reconcile, reconcileDeployment,          *)
(* reconcileService and refreshStatus, run against a cluster object store  *)
(* that is reached through sdk.Create / sdk.Get / sdk.Update / sdk.List.   *)
(*                                                                         *)
(* One Nginx instance is modelled.  Every store call of the handler is one *)
(* atomic step, so that two invocations of Handle (and the user, and       *)
(* whoever deletes objects) interleave between any two store calls.        *)
(***************************************************************************)
EXTENDS Integers, Sequences, FiniteSets, TLC

\* ---------------------------------------------------------------- bounds
\* Pod names are 1..MaxPods (compared with <, as Go compares the strings).
MaxPods == 2
\* Pod IPs are 1..MaxIPs.
MaxIPs == 2
\* The user-declared specs of the instance are 1..MaxSpec.
MaxSpec == 2
\* Dependent objects deleted from outside the core (garbage collector, user)
\* in one behaviour.
MaxDeletes == 1

\* The invocations of Handle that can be in flight at once.
Procs == {"h1", "h2"}

PodNames == 1..MaxPods
PodIPs == 1..MaxIPs
Specs == 1..MaxSpec

\* ------------------------------------------------------------ data types
\* A live Pod of the cluster, as sdk.List returns it in podList.Items.
PodObject == [Kind : {"Pod"}, Name : PodNames, PodIP : PodIPs]

\* v1alpha1.NginxPod{Name, PodIP}: one entry of NginxStatus.Pods.
NginxPod == [Name : PodNames, PodIP : PodIPs]

\* A Go slice: nil, or a (possibly empty) sequence of elements.
NilSlice == [isNil |-> TRUE, items |-> <<>>]

MkSlice(s) == [isNil |-> FALSE, items |-> s]

\* append(slice, x): the result of append is never nil.
Append1(slice, x) == MkSlice(Append(slice.items, x))

\* reflect.DeepEqual on two slices: both nil or both non-nil, the same
\* length, and equal elements (Name and PodIP) at every index.
DeepEqual(a, b) ==
    /\ a.isNil = b.isNil
    /\ Len(a.items) = Len(b.items)
    /\ \A i \in 1..Len(a.items) :
          /\ a.items[i].Name = b.items[i].Name
          /\ a.items[i].PodIP = b.items[i].PodIP

\* All the orders in which the elements of the finite set S can be listed.
Perms(S) ==
    {f \in [1..Cardinality(S) -> S] : \A i, j \in 1..Cardinality(S) : f[i] = f[j] => i = j}

UniqueNames(S) == \A x, y \in S : x.Name = y.Name => x = y

\* The sets of live Pods the selector of the instance can match, with names
\* and IPs up to the given bounds: Pod names are unique in a namespace.
PodSetsOver(names, ips) ==
    {S \in SUBSET [Kind : {"Pod"}, Name : names, PodIP : ips] : UniqueNames(S)}

\* The values NginxStatus.Pods can have in a stored resource: nil, or any
\* list of entries with distinct names in any order (empty list included).
StatusValuesOver(names, ips) ==
    {NilSlice} \cup
    {MkSlice(s) : s \in UNION {Perms(S) :
        S \in {T \in SUBSET [Name : names, PodIP : ips] : UniqueNames(T)}}}

PodSets == PodSetsOver(PodNames, PodIPs)

StatusValues == StatusValuesOver(PodNames, PodIPs)

\* Where only the sequencing of the store calls matters, the instance has
\* no Pod or one Pod, and its status is nil, empty or that Pod.
CorePodSets == PodSetsOver({1}, {1})

CoreStatusValues == StatusValuesOver({1}, {1})

\* --------------------------------------------------------------- errors
NoErr == [ctx |-> "", cause |-> "nil"]

\* An error returned to the caller as the store returned it.
Verbatim(cause) == [ctx |-> "", cause |-> cause]

\* fmt.Errorf("failed to list pods: %v", err)
ListPodsError(cause) == [ctx |-> "failed to list pods", cause |-> cause]

\* fmt.Errorf("failed to update nginx status: %v", err)
UpdateStatusError(cause) == [ctx |-> "failed to update nginx status", cause |-> cause]

\* ---------------------------------------------------------------- state
VARIABLES
    objects,      \* store: the dependent objects (Deployments, Services)
    cr,           \* store: the persisted Nginx resource [spec, status]
    livePods,     \* store: the live Pods matching the instance's selector
    pc,           \* per invocation: the next store call, "idle" or "done"
    event,        \* per invocation: the notification Handle received
    nginx,        \* per invocation: the in-memory *v1alpha1.Nginx (event.Object)
    podList,      \* per invocation: podList.Items as sdk.List returned them
    err,          \* per invocation: the error Handle returns
    calls,        \* per invocation: the store calls issued, with results
    stale,        \* per invocation: the stored resource was written after
                  \* the snapshot carried by the notification was taken
    deletes,      \* history: dependent objects deleted from outside
    storeFailed,  \* history: a store call failed other than AlreadyExists
    created,      \* history: successful Creates per kind
    settled       \* history: spec of the last reconcile that returned nil
                  \* with both dependent objects in the store, none of
                  \* which changed since; else 0

vars == <<objects, cr, livePods, pc, event, nginx, podList, err, calls, stale,
          deletes, storeFailed, created, settled>>

\* ------------------------------------------------- desired-state builder
\* k8s.NewDeployment(nginx) and k8s.NewService(nginx): the dependent object
\* of the instance, fully determined by the instance and its spec.
InstanceName == "nginx"

NewDeployment(n) == [kind |-> "Deployment", name |-> InstanceName, spec |-> n.spec]

NewService(n) == [kind |-> "Service", name |-> InstanceName, spec |-> n.spec]

DependentObjects ==
    [kind : {"Deployment", "Service"}, name : {InstanceName}, spec : Specs]

\* ------------------------------------------------------- resource client
\* Errors of the store other than AlreadyExists, NotFound and Conflict.
StoreFaults == {"Unavailable"}

Existing(obj) == {o \in objects : o.kind = obj.kind /\ o.name = obj.name}

\* Mutant: a create that replaces an existing object instead of rejecting it.
StoreCreateOrReplace(obj) ==
    {[res |-> c, objects |-> objects] : c \in StoreFaults} \cup
    {[res |-> "nil", objects |-> (objects \ Existing(obj)) \cup {obj}]}

\* sdk.Create(obj): the possible outcomes, each with the objects afterwards.
StoreCreate(obj) ==
    {[res |-> c, objects |-> objects] : c \in StoreFaults} \cup
    {IF Existing(obj) # {}
        THEN [res |-> "AlreadyExists", objects |-> objects]
        ELSE [res |-> "nil", objects |-> objects \cup {obj}]}

\* sdk.Get(obj): populates obj from the stored object of its kind and name.
StoreGet(obj) ==
    {[res |-> c, obj |-> obj] : c \in StoreFaults} \cup
    {IF Existing(obj) # {}
        THEN [res |-> "nil", obj |-> CHOOSE o \in Existing(obj) : TRUE]
        ELSE [res |-> "NotFound", obj |-> obj]}

\* sdk.Update(obj) of a dependent object: replaces the stored one.
StoreUpdateObject(obj) ==
    {[res |-> c, objects |-> objects] : c \in StoreFaults} \cup
    {IF Existing(obj) # {}
        THEN [res |-> "nil", objects |-> (objects \ Existing(obj)) \cup {obj}]
        ELSE [res |-> "NotFound", objects |-> objects]}

\* sdk.List(namespace, podList, selector): the matching Pods in any order.
StoreList ==
    {[res |-> c, items |-> <<>>] : c \in StoreFaults} \cup
    {[res |-> "nil", items |-> l] : l \in Perms(livePods)}

\* Mutant: an Update that persists the object and still reports a failure.
StoreUpdateNginxThenFail(n, isStale) ==
    {[res |-> c, cr |-> n] : c \in StoreFaults} \cup
    {IF isStale
        THEN [res |-> "Conflict", cr |-> cr]
        ELSE [res |-> "nil", cr |-> n]}

\* Mutant: a store without resource versions, the last write wins.
StoreUpdateNginxLastWriteWins(n, isStale) ==
    {[res |-> c, cr |-> cr] : c \in StoreFaults} \cup {[res |-> "nil", cr |-> n]}

\* sdk.Update(nginx): the store rejects an object whose resource version is
\* not the stored one (isStale), else persists the whole object.
StoreUpdateNginx(n, isStale) ==
    {[res |-> c, cr |-> cr] : c \in StoreFaults} \cup
    {IF isStale
        THEN [res |-> "Conflict", cr |-> cr]
        ELSE [res |-> "nil", cr |-> n]}

\* The set O of dependent objects holds a Deployment and a Service.
BothExist(O) == {o.kind : o \in O} = {"Deployment", "Service"}

IsFailure(res) == res # "nil" /\ res # "AlreadyExists"

\* ------------------------------------------------------------- sorting
\* sort.Slice(s, func(i, j) bool { return s[i].Name < s[j].Name }).
\* The names of a list are distinct, so every sorting algorithm yields the
\* same list; insertion sort computes it.
RECURSIVE InsertByName(_, _)
InsertByName(x, s) ==
    IF s = <<>> THEN <<x>>
    ELSE IF x.Name < Head(s).Name THEN <<x>> \o s
    ELSE <<Head(s)>> \o InsertByName(x, Tail(s))

RECURSIVE SortItems(_)
SortItems(s) ==
    IF s = <<>> THEN <<>> ELSE InsertByName(Head(s), SortItems(Tail(s)))

\* Mutant: sort.Slice left out.
SortByNameSkipped(slice) == slice

\* Sorting a nil slice leaves it nil.
SortByName(slice) == [isNil |-> slice.isNil, items |-> SortItems(slice.items)]

IsSortedByName(s) == \A i \in 1..(Len(s) - 1) : s[i].Name <= s[i + 1].Name

\* ------------------------------------------------------- refreshStatus
\* var pods []NginxPod; for _, p := range items { pods = append(pods, ...) }
RECURSIVE ProjectPods(_, _)
ProjectPods(acc, items) ==
    IF items = <<>> THEN acc
    ELSE ProjectPods(Append1(acc, [Name |-> Head(items).Name, PodIP |-> Head(items).PodIP]),
                     Tail(items))

\* Mutant: the observed list left in the order sdk.List returned.
ObservedPodsUnsorted(items) == ProjectPods(NilSlice, items)

\* The sorted list of the observed Pods.
ObservedPods(items) == SortByName(ProjectPods(NilSlice, items))

\* The in-memory status list after sort.Slice(nginx.Status.Pods, ...).
SortedStatus(status) == SortByName(status)

\* Mutant: the status written without a comparison.
StatusDiffersAlways(pods, status) == TRUE

\* if !reflect.DeepEqual(pods, nginx.Status.Pods)
StatusDiffers(pods, status) == ~DeepEqual(pods, status)

\* ------------------------------------------------------------- Handle
Kinds == {"Nginx", "Other"}

NoObject == [spec |-> 0, status |-> NilSlice]

NoEvent == [kind |-> "none", deleted |-> FALSE, object |-> NoObject]

\* Where control goes, and with which error.
Goto(label) == [pc |-> label, err |-> NoErr]

Fail(e) == [pc |-> "done", err |-> e]

\* refreshStatus up to its first store call: a deletion is skipped.
RefreshEntry(ev) == IF ev.deleted THEN Goto("done") ELSE Goto("ListPods")

\* Mutant: reconcile without its check of event.Deleted.
ReconcileEntryNoSkip(ev) == Goto("CreateDeployment")

\* reconcile up to its first store call: a deletion returns nil at once,
\* and Handle goes on to refreshStatus.
ReconcileEntry(ev) == IF ev.deleted THEN RefreshEntry(ev) ELSE Goto("CreateDeployment")

\* Mutant: Handle without its type switch.
HandleEntryAnyKind(ev) == ReconcileEntry(ev)

\* Handle: the type switch on event.Object; only *v1alpha1.Nginx is handled.
HandleEntry(ev) == IF ev.kind = "Nginx" THEN ReconcileEntry(ev) ELSE Goto("done")

\* reconcile after reconcileService returned nil: Handle calls refreshStatus.
ReconcileDone(ev) == RefreshEntry(ev)

\* Mutant: reconcileDeployment without errors.IsAlreadyExists.
AfterCreateDeploymentStrict(res) ==
    IF res # "nil" THEN Fail(Verbatim(res)) ELSE Goto("CreateService")

\* Mutant: the error of sdk.Create(deployment) dropped.
AfterCreateDeploymentIgnoreError(res) ==
    IF res = "AlreadyExists" THEN Goto("GetDeployment") ELSE Goto("CreateService")

\* reconcileDeployment after sdk.Create(deployment) returned res.
AfterCreateDeployment(res) ==
    IF res # "nil" /\ res # "AlreadyExists" THEN Fail(Verbatim(res))
    ELSE IF res = "nil" THEN Goto("CreateService")
    ELSE Goto("GetDeployment")

\* Mutant: the comparison the TODO of reconcileDeployment asks for.
DeploymentChangedCompared(desired, existing) == desired # existing

\* var changed bool: never set, no field of the Deployment is compared.
DeploymentChanged(desired, existing) == FALSE

\* Mutant: the error of sdk.Get dropped.
AfterGetDeploymentIgnoreError(res, desired, existing) == Goto("CreateService")

\* reconcileDeployment after sdk.Get(deployment) returned res.
AfterGetDeployment(res, desired, existing) ==
    IF res # "nil" THEN Fail(Verbatim(res))
    ELSE IF ~DeploymentChanged(desired, existing) THEN Goto("CreateService")
    ELSE Goto("UpdateDeployment")

\* reconcileDeployment after sdk.Update(deployment) returned res.
AfterUpdateDeployment(res) ==
    IF res # "nil" THEN Fail(Verbatim(res)) ELSE Goto("CreateService")

\* Mutant: reconcileService without errors.IsAlreadyExists.
AfterCreateServiceStrict(res, ev) ==
    IF res # "nil" THEN Fail(Verbatim(res)) ELSE ReconcileDone(ev)

\* reconcileService after sdk.Create(service) returned res.
AfterCreateService(res, ev) ==
    IF res = "AlreadyExists" THEN ReconcileDone(ev)
    ELSE IF res # "nil" THEN Fail(Verbatim(res))
    ELSE ReconcileDone(ev)

\* Mutant: the error of sdk.List dropped.
AfterListPodsIgnoreError(res, differs) ==
    IF differs THEN Goto("UpdateNginx") ELSE Goto("done")

\* refreshStatus after sdk.List returned res.
AfterListPods(res, differs) ==
    IF res # "nil" THEN Fail(ListPodsError(res))
    ELSE IF differs THEN Goto("UpdateNginx")
    ELSE Goto("done")

\* Mutant: a failed Update of the status is issued again.
AfterUpdateNginxRetry(res) ==
    IF res # "nil" THEN Goto("UpdateNginx") ELSE Goto("done")

\* refreshStatus after sdk.Update(nginx) returned res.
AfterUpdateNginx(res) ==
    IF res # "nil" THEN Fail(UpdateStatusError(res)) ELSE Goto("done")

Call(op, res) == [op |-> op, res |-> res]

InFlight(q) == pc[q] \notin {"idle", "done"}

\* Another writer of the stored resource makes the snapshots in flight stale.
MarkStale(writer) ==
    [q \in Procs |-> IF q # writer /\ InFlight(q) THEN TRUE ELSE stale[q]]

\* A notification for the instance (or for an object of another kind) is
\* delivered: Handle runs up to its first store call.
Handle(p) ==
    /\ pc[p] = "idle"
    /\ \E kind \in Kinds, deleted \in BOOLEAN :
         LET ev == [kind |-> kind, deleted |-> deleted,
                    object |-> IF kind = "Nginx" THEN cr ELSE NoObject]
             to == HandleEntry(ev)
         IN /\ event' = [event EXCEPT ![p] = ev]
            /\ nginx' = [nginx EXCEPT ![p] = ev.object]
            /\ pc' = [pc EXCEPT ![p] = to.pc]
            /\ err' = [err EXCEPT ![p] = to.err]
    /\ UNCHANGED <<objects, cr, livePods, podList, calls, stale,
                   deletes, storeFailed, created, settled>>

\* reconcileDeployment: sdk.Create(deployment).
CreateDeployment(p) ==
    /\ pc[p] = "CreateDeployment"
    /\ \E r \in StoreCreate(NewDeployment(nginx[p])) :
         LET to == AfterCreateDeployment(r.res)
         IN /\ objects' = r.objects
            /\ calls' = [calls EXCEPT ![p] = Append(@, Call("CreateDeployment", r.res))]
            /\ pc' = [pc EXCEPT ![p] = to.pc]
            /\ err' = [err EXCEPT ![p] = to.err]
            /\ storeFailed' = (storeFailed \/ IsFailure(r.res))
            /\ created' = IF r.res = "nil"
                            THEN [created EXCEPT !.Deployment = @ + 1] ELSE created
            /\ settled' = IF r.objects # objects THEN 0 ELSE settled
    /\ UNCHANGED <<cr, livePods, event, nginx, podList, stale, deletes>>

\* reconcileDeployment: sdk.Get(deployment) after AlreadyExists, and the
\* sdk.Update(deployment) that follows when something changed.
GetDeployment(p) ==
    /\ pc[p] = "GetDeployment"
    /\ \E r \in StoreGet(NewDeployment(nginx[p])) :
         LET got == AfterGetDeployment(r.res, NewDeployment(nginx[p]), r.obj)
             c1 == Append(calls[p], Call("GetDeployment", r.res))
         IN IF got.pc # "UpdateDeployment"
              THEN /\ objects' = objects
                   /\ calls' = [calls EXCEPT ![p] = c1]
                   /\ pc' = [pc EXCEPT ![p] = got.pc]
                   /\ err' = [err EXCEPT ![p] = got.err]
                   /\ storeFailed' = (storeFailed \/ IsFailure(r.res))
                   /\ settled' = settled
              ELSE \E u \in StoreUpdateObject(NewDeployment(nginx[p])) :
                     LET to == AfterUpdateDeployment(u.res)
                     IN /\ objects' = u.objects
                        /\ calls' = [calls EXCEPT ![p] =
                                        Append(c1, Call("UpdateDeployment", u.res))]
                        /\ pc' = [pc EXCEPT ![p] = to.pc]
                        /\ err' = [err EXCEPT ![p] = to.err]
                        /\ storeFailed' = (storeFailed \/ IsFailure(u.res))
                        /\ settled' = IF u.objects # objects THEN 0 ELSE settled
    /\ UNCHANGED <<cr, livePods, event, nginx, podList, stale, deletes, created>>

\* reconcileService: sdk.Create(service); on success reconcile returns nil.
CreateService(p) ==
    /\ pc[p] = "CreateService"
    /\ \E r \in StoreCreate(NewService(nginx[p])) :
         LET to == AfterCreateService(r.res, event[p])
         IN /\ objects' = r.objects
            /\ calls' = [calls EXCEPT ![p] = Append(@, Call("CreateService", r.res))]
            /\ pc' = [pc EXCEPT ![p] = to.pc]
            /\ err' = [err EXCEPT ![p] = to.err]
            /\ storeFailed' = (storeFailed \/ IsFailure(r.res))
            /\ created' = IF r.res = "nil"
                            THEN [created EXCEPT !.Service = @ + 1] ELSE created
            /\ settled' = IF to.err = NoErr /\ BothExist(r.objects) THEN nginx[p].spec
                          ELSE IF r.objects # objects THEN 0 ELSE settled
    /\ UNCHANGED <<cr, livePods, event, nginx, podList, stale, deletes>>

\* refreshStatus: sdk.List, the projection, both sorts and the comparison.
ListPods(p) ==
    /\ pc[p] = "ListPods"
    /\ \E r \in StoreList :
         LET pods == ObservedPods(r.items)
             status == SortedStatus(nginx[p].status)
             differs == StatusDiffers(pods, status)
             to == AfterListPods(r.res, differs)
         IN /\ podList' = [podList EXCEPT ![p] = r.items]
            /\ calls' = [calls EXCEPT ![p] = Append(@, Call("ListPods", r.res))]
            /\ nginx' = [nginx EXCEPT ![p].status =
                            IF r.res # "nil" THEN @
                            ELSE IF to.pc = "UpdateNginx" THEN pods ELSE status]
            /\ pc' = [pc EXCEPT ![p] = to.pc]
            /\ err' = [err EXCEPT ![p] = to.err]
            /\ storeFailed' = (storeFailed \/ IsFailure(r.res))
    /\ UNCHANGED <<objects, cr, livePods, event, stale, deletes, created, settled>>

\* refreshStatus: sdk.Update(nginx) with the observed list as status.
UpdateNginx(p) ==
    /\ pc[p] = "UpdateNginx"
    /\ \E r \in StoreUpdateNginx(nginx[p], stale[p]) :
         LET to == AfterUpdateNginx(r.res)
         IN /\ cr' = r.cr
            /\ calls' = [calls EXCEPT ![p] = Append(@, Call("UpdateNginx", r.res))]
            /\ pc' = [pc EXCEPT ![p] = to.pc]
            /\ err' = [err EXCEPT ![p] = to.err]
            /\ storeFailed' = (storeFailed \/ IsFailure(r.res))
            /\ stale' = IF r.res = "nil" THEN MarkStale(p) ELSE stale
    /\ UNCHANGED <<objects, livePods, event, nginx, podList, deletes, created, settled>>

\* Handle has returned; the invocation's memory is gone.
Return(p) ==
    /\ pc[p] = "done"
    /\ pc' = [pc EXCEPT ![p] = "idle"]
    /\ event' = [event EXCEPT ![p] = NoEvent]
    /\ nginx' = [nginx EXCEPT ![p] = NoObject]
    /\ podList' = [podList EXCEPT ![p] = <<>>]
    /\ err' = [err EXCEPT ![p] = NoErr]
    /\ calls' = [calls EXCEPT ![p] = <<>>]
    /\ stale' = [stale EXCEPT ![p] = FALSE]
    /\ UNCHANGED <<objects, cr, livePods, deletes, storeFailed, created, settled>>

\* -------------------------------------------------------- environment
\* Pods of the instance start, stop or get another IP.
PodsChange ==
    /\ \E S \in CorePodSets \ {livePods} : livePods' = S
    /\ UNCHANGED <<objects, cr, pc, event, nginx, podList, err, calls, stale,
                   deletes, storeFailed, created, settled>>

\* The user edits the spec of the stored resource.
EditSpec ==
    /\ \E s \in Specs \ {cr.spec} : cr' = [cr EXCEPT !.spec = s]
    /\ stale' = MarkStale("user")
    /\ UNCHANGED <<objects, livePods, pc, event, nginx, podList, err, calls,
                   deletes, storeFailed, created, settled>>

\* A dependent object is deleted from outside the core.
DeleteDependent ==
    /\ deletes < MaxDeletes
    /\ \E o \in objects : objects' = objects \ {o}
    /\ deletes' = deletes + 1
    /\ settled' = 0
    /\ UNCHANGED <<cr, livePods, pc, event, nginx, podList, err, calls, stale,
                   storeFailed, created>>

\* ------------------------------------------------------ specification
\* No invocation is in flight and nothing has happened yet.
InitHandlers ==
    /\ pc = [p \in Procs |-> "idle"]
    /\ event = [p \in Procs |-> NoEvent]
    /\ nginx = [p \in Procs |-> NoObject]
    /\ podList = [p \in Procs |-> <<>>]
    /\ err = [p \in Procs |-> NoErr]
    /\ calls = [p \in Procs |-> <<>>]
    /\ stale = [p \in Procs |-> FALSE]
    /\ deletes = 0
    /\ storeFailed = FALSE
    /\ created = [Deployment |-> 0, Service |-> 0]
    /\ settled = 0

\* The store holds any resource, any Pods and any dependent objects (at
\* most one of a kind and name).
Init ==
    /\ objects \in {O \in SUBSET DependentObjects :
                      \A x, y \in O : x.kind = y.kind => x = y}
    /\ cr \in [spec : Specs, status : CoreStatusValues]
    /\ livePods \in CorePodSets
    /\ InitHandlers

\* Notifications handled one at a time, while Pods come and go, the user
\* edits the spec, dependent objects get deleted and store calls fail.
Next ==
    \/ Handle("h1")
    \/ CreateDeployment("h1")
    \/ GetDeployment("h1")
    \/ CreateService("h1")
    \/ ListPods("h1")
    \/ UpdateNginx("h1")
    \/ Return("h1")
    \/ PodsChange
    \/ EditSpec
    \/ DeleteDependent

Spec == Init /\ [][Next]_vars

\* One invocation at a time, undisturbed, on every stored status list and
\* every set of live Pods: the inputs of refreshStatus.
InitRefresh ==
    /\ objects = {NewDeployment([spec |-> 1])}
    /\ cr \in [spec : {1}, status : StatusValues]
    /\ livePods \in PodSets
    /\ InitHandlers

NextRefresh ==
    \/ Handle("h1")
    \/ CreateDeployment("h1")
    \/ GetDeployment("h1")
    \/ CreateService("h1")
    \/ ListPods("h1")
    \/ UpdateNginx("h1")
    \/ Return("h1")

SpecRefresh == InitRefresh /\ [][NextRefresh]_vars

\* Two invocations for the same instance whose store calls interleave in
\* any order, while dependent objects get deleted and store calls fail.
NextOverlap ==
    \/ \E p \in Procs : Handle(p)
    \/ \E p \in Procs : CreateDeployment(p)
    \/ \E p \in Procs : GetDeployment(p)
    \/ \E p \in Procs : CreateService(p)
    \/ \E p \in Procs : ListPods(p)
    \/ \E p \in Procs : UpdateNginx(p)
    \/ \E p \in Procs : Return(p)
    \/ DeleteDependent

SpecOverlap == Init /\ [][NextOverlap]_vars

\* --------------------------------------------------- reading the state
Range(f) == {f[i] : i \in DOMAIN f}

\* The store calls invocation p has issued so far.
Issued(p, op) == {i \in 1..Len(calls[p]) : calls[p][i].op = op}

HasCall(p, op, res) == \E i \in 1..Len(calls[p]) : calls[p][i] = Call(op, res)

LastCall(p) ==
    IF calls[p] = <<>> THEN Call("none", "nil") ELSE calls[p][Len(calls[p])]

\* The step is the store call op of invocation p, and the store answered res.
CallStep(p, op, res) == pc[p] = op /\ calls'[p] = Append(calls[p], Call(op, res))

\* The notification of p is a non-deletion notification for the instance.
Reconciling(p) == event[p].kind = "Nginx" /\ ~event[p].deleted

\* sdk.Update(nginx) is issued in this invocation: the call is made, or it
\* is the next thing refreshStatus does.
UpdateIssued(p) == pc[p] = "UpdateNginx" \/ Issued(p, "UpdateNginx") # {}

\* refreshStatus of p has listed the Pods and compared the two lists.
Compared(p) == HasCall(p, "ListPods", "nil")

\* The list of the elements of S in increasing order of Name.
SortedListOf(S) == CHOOSE s \in Perms(S) : IsSortedByName(s)

\* The {Name, PodIP} of the Pods that sdk.List returned to p, sorted by Name.
ObservedSorted(p) ==
    SortedListOf({[Name |-> x.Name, PodIP |-> x.PodIP] : x \in Range(podList[p])})

\* The status list of the notification of p, sorted by Name.
StoredSorted(p) == SortedListOf(Range(event[p].object.status.items))

\* Two lists differ in length or in some element's Name or PodIP.
ListsDiffer(a, b) ==
    \/ Len(a) # Len(b)
    \/ \E i \in 1..Len(a) : a[i].Name # b[i].Name \/ a[i].PodIP # b[i].PodIP

\* ----------------------------------------------------------------- C1
\* C1: a notification with Deleted=true for the Nginx object makes Handle
\* return success at once, with no store call issued and the store
\* (dependent objects, resource, Pods) the same before and after.
C1_DeletionIsNoOp ==
    [][\A p \in Procs :
          (pc[p] = "idle" /\ pc'[p] # "idle"
              /\ event'[p].kind = "Nginx" /\ event'[p].deleted)
          => /\ pc'[p] = "done"
             /\ err'[p] = NoErr
             /\ calls'[p] = <<>>
             /\ objects' = objects /\ cr' = cr /\ livePods' = livePods]_vars

C1_Witness ==
    \E p \in Procs :
        /\ pc[p] = "done"
        /\ event[p].kind = "Nginx" /\ event[p].deleted
        /\ objects = {} /\ livePods # {}

\* ----------------------------------------------------------------- C2
ReconcileOps == {"CreateDeployment", "GetDeployment", "CreateService"}

\* C2: reconcile run again with the same spec, right after a reconcile
\* that succeeded (settled = the spec: the dependent objects are as that
\* run left them), against a store that answers nil or AlreadyExists:
\* every store call of the second run leaves the Deployments and Services
\* as the first run left them and the run goes on without error, so it
\* returns success with the same object set.
C2_ReconcileIdempotent ==
    [][\A p \in Procs :
          (/\ pc[p] \in ReconcileOps
           /\ settled # 0 /\ settled = nginx[p].spec
           /\ \E res \in {"nil", "AlreadyExists"} : CallStep(p, pc[p], res))
          => /\ objects' = objects
             /\ err'[p] = NoErr
             /\ pc'[p] \in {"GetDeployment", "CreateService", "ListPods"}
             /\ settled' = settled]_vars

\* A second run, with the spec of the run that created both objects, has
\* found the Deployment and is about to create the Service.
C2_Witness ==
    \E p \in Procs :
        /\ pc[p] = "CreateService"
        /\ settled = nginx[p].spec
        /\ created = [Deployment |-> 1, Service |-> 1]
        /\ deletes = 0
        /\ calls[p] = <<Call("CreateDeployment", "AlreadyExists"), Call("GetDeployment", "nil")>>

\* ----------------------------------------------------------------- C3
\* C3: once sdk.List has succeeded, refreshStatus issues the status Update
\* if and only if the stored list and the observed list, each sorted by
\* Name, differ in length or in some element's Name or PodIP.
C3_UpdateIffListsDiffer ==
    \A p \in Procs :
        Compared(p) =>
            (UpdateIssued(p) <=> ListsDiffer(ObservedSorted(p), StoredSorted(p)))

\* The stored list is present but empty and no Pod is observed: the one case
\* in which refreshStatus compares a nil slice with an empty one.
EmptyAgainstNil(p) ==
    /\ ~event[p].object.status.isNil
    /\ event[p].object.status.items = <<>>
    /\ podList[p] = <<>>

\* In every other case the Update is issued exactly when the lists differ;
\* in that case it is issued although the lists are equal.
C3_HoldsUnlessEmptyAgainstNil ==
    \A p \in Procs :
        Compared(p) =>
            IF EmptyAgainstNil(p) THEN UpdateIssued(p)
            ELSE UpdateIssued(p) <=> ListsDiffer(ObservedSorted(p), StoredSorted(p))

\* ----------------------------------------------------------------- C4
\* The outcome of refreshStatus on the Pods l and the status list st: whether
\* it writes, and the list it writes.
RefreshOutcome(l, st) ==
    LET pods == ObservedPods(l)
        differs == StatusDiffers(pods, SortedStatus(st))
    IN [writes |-> differs, list |-> IF differs THEN pods.items ELSE <<>>]

\* The same slice with its elements in all orders.
Reorderings(slice) ==
    {[isNil |-> slice.isNil, items |-> s] : s \in Perms(Range(slice.items))}

\* C4: whether refreshStatus writes, and the list it writes, are the same
\* for every order of the Pods returned by sdk.List and every order of the
\* stored status list; and when the observed Pods are a permutation of the
\* stored entries, no write is issued.
C4_OrderIndependent ==
    \A p \in Procs :
        Compared(p) =>
            /\ \A l \in Perms(Range(podList[p])),
                  st \in Reorderings(event[p].object.status) :
                  RefreshOutcome(l, st) =
                      [writes |-> UpdateIssued(p),
                       list |-> IF UpdateIssued(p) THEN nginx[p].status.items ELSE <<>>]
            /\ ({[Name |-> x.Name, PodIP |-> x.PodIP] : x \in Range(podList[p])}
                    = Range(event[p].object.status.items)
                => ~UpdateIssued(p))

\* The order-independence half of C4 alone: it holds in every case.
C4_OutcomeOrderIndependent ==
    \A p \in Procs :
        Compared(p) =>
            \A l \in Perms(Range(podList[p])),
               st \in Reorderings(event[p].object.status) :
               RefreshOutcome(l, st) =
                   [writes |-> UpdateIssued(p),
                    list |-> IF UpdateIssued(p) THEN nginx[p].status.items ELSE <<>>]

\* ----------------------------------------------------------------- C5
\* C5: when the observed Pods differ from the stored status, refreshStatus
\* issues exactly one Update of the Nginx resource; the status it hands to
\* the store, and the status stored once the Update succeeded, is the
\* observed {Name, PodIP} list sorted by Name.
C5_OneUpdateWithObservedList ==
    \A p \in Procs :
        (Compared(p) /\ ListsDiffer(ObservedSorted(p), StoredSorted(p))) =>
            /\ UpdateIssued(p)
            /\ nginx[p].status.items = ObservedSorted(p)
            /\ pc[p] = "done" => Cardinality(Issued(p, "UpdateNginx")) = 1
            /\ HasCall(p, "UpdateNginx", "nil") => cr.status.items = ObservedSorted(p)

\* Two Pods were listed in decreasing order of Name, one of them with an IP
\* other than the stored one, and the Update succeeded.
C5_Witness ==
    \E p \in Procs :
        /\ pc[p] = "done"
        /\ HasCall(p, "UpdateNginx", "nil")
        /\ Len(podList[p]) = 2
        /\ podList[p][1].Name > podList[p][2].Name
        /\ Len(event[p].object.status.items) = 2
        /\ \E i, j \in 1..2 :
              /\ podList[p][i].Name = event[p].object.status.items[j].Name
              /\ podList[p][i].PodIP # event[p].object.status.items[j].PodIP

\* ----------------------------------------------------------------- C6
\* C6: when sdk.Create of the Service answers AlreadyExists, reconcileService
\* returns nil: no error, the next store call of the invocation is the List
\* of the Pods (no Get, no Update of the Service), and the dependent
\* objects, the existing Service among them, are unchanged.
C6_ServiceAlreadyExistsIsSuccess ==
    [][\A p \in Procs :
          CallStep(p, "CreateService", "AlreadyExists")
          => /\ err'[p] = NoErr
             /\ pc'[p] = "ListPods"
             /\ objects' = objects]_vars

\* The existing Service was built from another spec than the one reconciled.
C6_Witness ==
    \E p \in Procs :
        /\ pc[p] = "ListPods"
        /\ LastCall(p) = Call("CreateService", "AlreadyExists")
        /\ \E o \in objects : o.kind = "Service" /\ o.spec # nginx[p].spec

\* ----------------------------------------------------------------- C7
\* C7: when sdk.List fails, the invocation ends with the error
\* "failed to list pods" carrying the cause the store gave, no Update of the
\* Nginx resource is issued and the stored resource is unchanged.
C7_ListFailure ==
    [][\A p \in Procs : \A c \in StoreFaults :
          CallStep(p, "ListPods", c)
          => /\ pc'[p] = "done"
             /\ err'[p].ctx = "failed to list pods"
             /\ err'[p].cause = c
             /\ Issued(p, "UpdateNginx") = {}
             /\ cr' = cr]_vars

\* The List failed although the Pods differ from the stored status.
C7_Witness ==
    \E p \in Procs :
        /\ pc[p] = "done"
        /\ LastCall(p) = Call("ListPods", "Unavailable")
        /\ err[p] = ListPodsError("Unavailable")
        /\ livePods # {} /\ cr.status.items = <<>>

\* ----------------------------------------------------------------- C8
\* The calls of reconcile that invocation p has issued all succeeded
\* (AlreadyExists counts as success for a Create).
ReconcileFailed(p) ==
    \E i \in 1..Len(calls[p]) :
        calls[p][i].op \in ReconcileOps \cup {"UpdateDeployment"} /\ IsFailure(calls[p][i].res)

\* reconcile of p has returned nil: the Service was created or existed.
ReconcileSucceeded(p) ==
    /\ ~ReconcileFailed(p)
    /\ \E res \in {"nil", "AlreadyExists"} : HasCall(p, "CreateService", res)

\* refreshStatus of p has started: it is at, or past, the List of the Pods.
RefreshStarted(p) ==
    \/ pc[p] \in {"ListPods", "UpdateNginx"}
    \/ Issued(p, "ListPods") # {}
    \/ Issued(p, "UpdateNginx") # {}

\* C8: for a non-deletion notification, the List of the Pods and the status
\* Update happen only after reconcile returned nil; when a call of
\* reconcile fails, Handle returns that error as the store gave it and
\* issues no List and no status Update.
C8_ShortCircuit ==
    \A p \in Procs :
        /\ RefreshStarted(p) => (Reconciling(p) /\ ReconcileSucceeded(p))
        /\ ReconcileFailed(p) =>
              /\ pc[p] = "done"
              /\ err[p] = Verbatim(LastCall(p).res)
              /\ ~RefreshStarted(p)

\* The Get after AlreadyExists failed: the Deployment had been deleted.
C8_Witness ==
    \E p \in Procs :
        /\ pc[p] = "done"
        /\ calls[p] = <<Call("CreateDeployment", "AlreadyExists"), Call("GetDeployment", "NotFound")>>
        /\ err[p] = Verbatim("NotFound")

\* ----------------------------------------------------------------- C9
\* C9 (I1), as stated: over any sequence of notifications for the
\* instance, at most one Create of its Deployment and at most one Create of
\* its Service succeed.  It fails once a dependent object is deleted from
\* outside: the next reconcile creates it again.
C9_CreatedAtMostOnce ==
    /\ created.Deployment <= 1
    /\ created.Service <= 1

\* C9, amended: as long as nothing outside the core deletes a dependent
\* object, at most one Create of the Deployment and at most one Create of
\* the Service succeed, overlapping invocations included; every further
\* successful Create follows a deletion from outside, and the store never
\* holds two objects of a kind.
C9_CreatedOncePerDeletion ==
    /\ created.Deployment <= 1 + deletes
    /\ created.Service <= 1 + deletes
    /\ \A k \in {"Deployment", "Service"} :
          Cardinality({o \in objects : o.kind = k}) <= 1

\* Both objects were created, nothing was deleted, the invocations that
\* created them have returned, and a later invocation has reconciled
\* without creating anything.
C9_Witness ==
    /\ created = [Deployment |-> 1, Service |-> 1]
    /\ deletes = 0
    /\ pc["h2"] = "idle"
    /\ pc["h1"] = "ListPods"
    /\ calls["h1"] = <<Call("CreateDeployment", "AlreadyExists"),
                       Call("GetDeployment", "nil"),
                       Call("CreateService", "AlreadyExists")>>

\* ---------------------------------------------------------------- C10
\* reconcile of p has returned, with nil or with an error.
ReconcileReturned(p) ==
    /\ Reconciling(p)
    /\ pc[p] \in {"ListPods", "UpdateNginx", "done"}

\* C10: when two invocations for the instance have both run reconcile, their
\* store calls interleaved in any order, the store failed no call of either
\* reconcile (it answered nil or AlreadyExists) and nobody else deleted an
\* object, both reconciles returned nil and exactly one Deployment and
\* exactly one Service exist.
C10_OverlapTolerated ==
    (deletes = 0 /\ \A p \in Procs : ReconcileReturned(p) /\ ~ReconcileFailed(p)) =>
        /\ \A p \in Procs : ReconcileSucceeded(p) /\ (err[p] = NoErr \/ err[p].ctx # "")
        /\ Cardinality({o \in objects : o.kind = "Deployment"}) = 1
        /\ Cardinality({o \in objects : o.kind = "Service"}) = 1
        /\ created.Deployment <= 1 /\ created.Service <= 1

\* A race: h1 created the Deployment, h2 found it and created the Service
\* before h1 got to it.
C10_Witness ==
    /\ pc["h1"] = "ListPods" /\ pc["h2"] = "ListPods"
    /\ calls["h1"] = <<Call("CreateDeployment", "nil"),
                       Call("CreateService", "AlreadyExists")>>
    /\ calls["h2"] = <<Call("CreateDeployment", "AlreadyExists"),
                       Call("GetDeployment", "nil"),
                       Call("CreateService", "nil")>>

\* ---------------------------------------------------------------- C11
\* Notifications for the instance are handled one after the other and
\* nothing else writes to the store: no spec edit, no deletion, no Pod
\* change.
NextConverge ==
    \/ Handle("h1")
    \/ CreateDeployment("h1")
    \/ GetDeployment("h1")
    \/ CreateService("h1")
    \/ ListPods("h1")
    \/ UpdateNginx("h1")
    \/ Return("h1")

\* The delivery of a notification for the Nginx resource that is not about
\* its deletion.
Delivered ==
    /\ Handle("h1")
    /\ event'["h1"].kind = "Nginx"
    /\ ~event'["h1"].deleted

\* A step of an invocation in which no store call fails.
Progress ==
    /\ NextConverge
    /\ pc["h1"] # "idle"
    /\ storeFailed' = storeFailed

\* Non-deletion notifications carrying the current spec keep being delivered
\* (strong fairness: delivery is possible only between two invocations), and
\* an invocation runs to its return: Handle is sequential code.
SpecConverge ==
    Init /\ [][NextConverge]_vars /\ WF_vars(Progress) /\ SF_vars(Delivered)

\* The dependent objects are the desired ones, built from the current spec.
DependentsDesired == objects = {NewDeployment(cr), NewService(cr)}

\* C11: unless a store call fails, eventually a Deployment and a Service
\* exist and equal the objects built from the current spec, whatever was in
\* the store beforehand.
C11_EventuallyDesired == <>(storeFailed \/ DependentsDesired)

\* The existence half of C11 alone: it holds.
C11_EventuallyExist == <>(storeFailed \/ BothExist(objects))

\* ---------------------------------------------------------------- C12
Returned(p) == pc[p] = "done" /\ event[p].kind = "Nginx"

ReturnedError(p) == Returned(p) /\ err[p] # NoErr

\* C12: when Handle returns an error, the stored Nginx resource, spec and
\* status, is the one the invocation started from.
C12_ErrorLeavesResource ==
    \A p \in Procs : ReturnedError(p) => cr = event[p].object

\* Handle returned the error of the status Update, which had a list to
\* write that differs from the stored one.
C12_Witness ==
    /\ ReturnedError("h1")
    /\ LastCall("h1").op = "UpdateNginx"
    /\ nginx["h1"].status # cr.status
    /\ cr = event["h1"].object

\* ---------------------------------------------------------------- C13
\* C13: a notification whose object is not an Nginx resource is ignored:
\* Handle returns nil at once and has issued no store call, whether or not
\* the notification is a deletion.
C13_OtherKindIgnored ==
    \A p \in Procs :
        event[p].kind = "Other" =>
            /\ pc[p] = "done"
            /\ err[p] = NoErr
            /\ calls[p] = <<>>
            /\ nginx[p] = NoObject

\* Handle has returned for a notification of another kind that is not a
\* deletion, while the store lacks a dependent object a reconcile would
\* have created.
C13_Witness ==
    /\ event["h1"].kind = "Other"
    /\ ~event["h1"].deleted
    /\ pc["h1"] = "done"
    /\ ~BothExist(objects)

\* ---------------------------------------------------------------- C14
\* The store calls of Handle in the order of the code.
StoreCallOrder ==
    <<"CreateDeployment", "GetDeployment", "CreateService", "ListPods", "UpdateNginx">>

Position(op) == CHOOSE i \in 1..Len(StoreCallOrder) : StoreCallOrder[i] = op

\* The calls of p so far are among the five, each at most once, in order.
InOrder(p) ==
    /\ \A i \in 1..Len(calls[p]) : calls[p][i].op \in Range(StoreCallOrder)
    /\ \A i, j \in 1..Len(calls[p]) :
          i < j => Position(calls[p][i].op) < Position(calls[p][j].op)

\* A failed call is the last one, and Handle has returned its error.
FailureEnds(p) ==
    \A i \in 1..Len(calls[p]) :
        IsFailure(calls[p][i].res) =>
            /\ i = Len(calls[p])
            /\ pc[p] = "done"
            /\ err[p] # NoErr

\* C14: one invocation issues each store call at most once, in the order
\* Create(Deployment), Get(Deployment), Create(Service), List(Pods),
\* Update(Nginx), at most five in all; the first failure other than
\* AlreadyExists ends it with an error and no later call.
C14_BoundedOrderedCalls ==
    \A p \in Procs :
        /\ InOrder(p)
        /\ FailureEnds(p)
        /\ Len(calls[p]) <= Len(StoreCallOrder)

\* An invocation that issued all five calls, and one that ended on a failed
\* call: here the fifth call failed.
C14_Witness ==
    /\ Len(calls["h1"]) = Len(StoreCallOrder)
    /\ IsFailure(LastCall("h1").res)
    /\ pc["h1"] = "done"

\* ---------------------------------------------------------------- C15
\* C15: every status list refreshStatus hands to the store, and so every
\* list it persists, is sorted by Name.
C15_PersistedSorted ==
    \A p \in Procs :
        /\ pc[p] = "UpdateNginx" => IsSortedByName(nginx[p].status.items)
        /\ HasCall(p, "UpdateNginx", "nil") => IsSortedByName(cr.status.items)

\* Two Pods listed in decreasing order of Name were persisted over a status
\* that had no entry.
C15_Witness ==
    /\ HasCall("h1", "UpdateNginx", "nil")
    /\ Len(cr.status.items) = 2
    /\ podList["h1"][1].Name > podList["h1"][2].Name
    /\ event["h1"].object.status.items = <<>>

\* ---------------------------------------------------------------- C16
\* The step in which invocation p leaves the Get of the Deployment behind.
GetStep(p) == pc[p] = "GetDeployment" /\ pc'[p] # "GetDeployment"

\* What reconcileDeployment does once Create answered AlreadyExists.
AfterAlreadyExists(p) ==
    /\ pc'[p] = "GetDeployment" <=>
          (LastCall(p)' = Call("CreateDeployment", "AlreadyExists") /\ pc'[p] # "done")
    /\ Issued(p, "UpdateDeployment")' = {}
    /\ (HasCall(p, "CreateDeployment", "AlreadyExists")' /\ pc'[p] # "GetDeployment") =>
          Cardinality(Issued(p, "GetDeployment")') = 1
    /\ GetStep(p) =>
          /\ objects' = objects
          /\ \E res \in {"nil", "NotFound"} \cup StoreFaults :
                /\ calls'[p] = Append(calls[p], Call("GetDeployment", res))
                /\ res = "nil" => (pc'[p] = "CreateService" /\ err'[p] = NoErr)
                /\ res # "nil" => (pc'[p] = "done" /\ err'[p] = Verbatim(res))

\* C16: when Create of the Deployment answers AlreadyExists,
\* reconcileDeployment issues exactly one Get and no Update, whether or not
\* the existing Deployment differs from the desired one; the stored
\* Deployment stays as it is, and the step succeeds when the Get succeeds.
C16_GetButNeverUpdate == [][\A p \in Procs : AfterAlreadyExists(p)]_vars

\* The Get succeeded on a Deployment that differs from the desired one, and
\* reconcile went on to the Service.
C16_Witness ==
    /\ LastCall("h1") = Call("GetDeployment", "nil")
    /\ pc["h1"] = "CreateService"
    /\ \E o \in objects : o.kind = "Deployment" /\ o # NewDeployment(nginx["h1"])

\* ---------------------------------------------------------------- C17
\* reconcileDeployment of p returned nil.
DeploymentStepSucceeded(p) ==
    \/ HasCall(p, "CreateDeployment", "nil")
    \/ /\ HasCall(p, "CreateDeployment", "AlreadyExists")
       /\ HasCall(p, "GetDeployment", "nil")

\* The failures of reconcileDeployment: of its Create, other than
\* AlreadyExists, and of its Get.
DeploymentFailures(p) ==
    {c \in Range(calls[p]) :
        /\ c.op \in {"CreateDeployment", "GetDeployment"}
        /\ IsFailure(c.res)}

ServiceAttempted(p) == pc[p] = "CreateService" \/ Issued(p, "CreateService") # {}

\* C17: the Create of the Service is attempted only after the Deployment
\* step succeeded; when the Create of the Deployment fails, or the Get after
\* AlreadyExists fails (NotFound when the Deployment was deleted in between),
\* Handle returns that error and no Create of the Service is issued.
C17_ServiceAfterDeployment ==
    \A p \in Procs :
        /\ ServiceAttempted(p) =>
              (DeploymentStepSucceeded(p) /\ DeploymentFailures(p) = {})
        /\ \A c \in DeploymentFailures(p) :
              /\ pc[p] = "done"
              /\ err[p] = Verbatim(c.res)
              /\ ~ServiceAttempted(p)

\* The Deployment was deleted between the Create that answered AlreadyExists
\* and the Get, which answered NotFound: Handle returned without a Service.
C17_Witness ==
    /\ HasCall("h1", "CreateDeployment", "AlreadyExists")
    /\ LastCall("h1") = Call("GetDeployment", "NotFound")
    /\ pc["h1"] = "done"
    /\ \A o \in objects : o.kind # "Service"

\* ---------------------------------------------------------------- C18
\* Handle returned nil for a non-deletion notification of the instance.
Succeeded(p) == Returned(p) /\ Reconciling(p) /\ err[p] = NoErr

\* Invocation p has written nothing to the store and is not about to: no
\* Create of it succeeded and it issues no Update.
Quiet(p) ==
    /\ ~HasCall(p, "CreateDeployment", "nil")
    /\ ~HasCall(p, "CreateService", "nil")
    /\ Issued(p, "UpdateDeployment") = {}
    /\ ~UpdateIssued(p)

\* C18: where nothing but the handler touches the store and the Pods stay
\* as they are, once an invocation for the instance has succeeded every
\* later invocation, given the resource as stored, creates nothing and
\* issues no Update: the store no longer changes.
C18_Quiescence ==
    \A p \in Procs :
        [](Succeeded(p) => [](pc[p] = "idle" => [](Quiet(p) /\ BothExist(objects))))

\* A later invocation that found both objects created by earlier ones and the
\* stored status equal to the Pods it listed: four calls, no write.
C18_Witness ==
    /\ Succeeded("h1")
    /\ Quiet("h1")
    /\ Len(calls["h1"]) = 4
    /\ created.Deployment = 1
    /\ created.Service = 1
    /\ livePods # {}

\* ---------------------------------------------------------------- C19
\* The List of p returned no Pod and the status of its notification has no
\* entry.
BothEmpty(p) ==
    /\ Compared(p)
    /\ podList[p] = <<>>
    /\ event[p].object.status.items = <<>>

\* C19: when List returns no Pod and the stored status list has no entry,
\* refreshStatus issues no Update, whether the stored list is nil or present
\* but empty.
C19_NoUpdateWhenBothEmpty ==
    \A p \in Procs : BothEmpty(p) => ~UpdateIssued(p)

\* The nil half of C19 alone: it holds.
C19_NoUpdateWhenStoredNil ==
    \A p \in Procs :
        (BothEmpty(p) /\ event[p].object.status.isNil) => ~UpdateIssued(p)

\* ---------------------------------------------------------------- C20
\* Two invocations interleave while the user edits the spec and the Pods
\* change; both dependent objects exist from the start.
InitEdit ==
    /\ objects = {NewDeployment([spec |-> 1]), NewService([spec |-> 1])}
    /\ cr \in [spec : Specs, status : {NilSlice}]
    /\ livePods \in CorePodSets
    /\ InitHandlers

NextEdit ==
    \/ \E p \in Procs : Handle(p)
    \/ \E p \in Procs : CreateDeployment(p)
    \/ \E p \in Procs : GetDeployment(p)
    \/ \E p \in Procs : CreateService(p)
    \/ \E p \in Procs : ListPods(p)
    \/ \E p \in Procs : UpdateNginx(p)
    \/ \E p \in Procs : Return(p)
    \/ PodsChange
    \/ EditSpec

SpecEdit == InitEdit /\ [][NextEdit]_vars

\* The step is a step of the handler, not of the user or the cluster.
HandlerStep == pc' # pc

\* C20: no step of the handler changes the spec of the stored resource, also
\* when its notification carries an older snapshot, so the stored spec is
\* always the one the user wrote last; a successful Update of refreshStatus
\* replaces the status list and nothing else.
C20_SpecUntouched ==
    [][HandlerStep =>
          /\ cr'.spec = cr.spec
          /\ \A p \in Procs :
                CallStep(p, "UpdateNginx", "nil") =>
                    cr' = [cr EXCEPT !.status = nginx[p].status]]_vars

\* The user edited the spec while an invocation held the older snapshot
\* and a new status list: its Update was refused, the edit is in the store.
C20_Witness ==
    \E p \in Procs :
        /\ LastCall(p) = Call("UpdateNginx", "Conflict")
        /\ cr.spec # nginx[p].spec
        /\ cr.status # nginx[p].status
====
